---- MODULE Spec2Model ----
(***************************************************************************)
(* Breadboard (src/__init__.py): a starboard cog.  Reaction events are     *)
(* handled by the coroutine on_raw_reaction_update; every `await` is a     *)
(* point where another event's coroutine may run, so one action of this    *)
(* module is the code between two awaits.  The sqlite table                *)
(* starred_messages and the in-memory guild_configs are shared by all      *)
(* coroutines; the chat platform (fetches, webhook send/edit/delete) is an *)
(* external collaborator whose answers are nondeterministic.               *)
(***************************************************************************)
EXTENDS Integers, Sequences, FiniteSets, TLC

\* ---------------------------------------------------------------- bounds
MaxUsers == 2
MaxRequired == 2
NumEvents == 2
\* the longest watched_emojis list the Add Emoji button is let build
MaxWatched == 2

\* ---------------------------------------------------------------- universe
Users == 1..MaxUsers
Events == 1..NumEvents
\* Optional values (Python's None): the empty tuple, or a one-element tuple.
None == <<>>
Some(x) == <<x>>

\* Guild 1 has the starboard channels 20 and 21 and the ordinary channel 10;
\* guild 2 (channel 30) has no configuration entry; channel 40 is a private
\* channel outside any guild (guild_id None).
ConfiguredGuild == {1}
StarboardChannels == {20, 21}
\* The messages reaction events can be about: where each was posted and by
\* whom.  Message 2 was posted inside starboard channel 20.
Messages == {1, 2, 3, 4}
Origin ==
    [m \in Messages |->
        CASE m = 1 -> [guild_id |-> Some(1), channel_id |-> 10, author |-> 1]
          [] m = 2 -> [guild_id |-> Some(1), channel_id |-> 20, author |-> 1]
          [] m = 3 -> [guild_id |-> Some(2), channel_id |-> 30, author |-> 1]
          [] OTHER -> [guild_id |-> None, channel_id |-> 40, author |-> 1]]

\* str(emoji) of the reactions a message can carry: a unicode emoji and a
\* custom emoji "<:name:id>"
EmojiStrings == {"star", "<:heart:7>"}

\* discord.PartialEmoji.from_str: "<:name:id>" parses to a custom emoji with
\* that name and id, anything else is a unicode emoji (id None).
from_str(s) ==
    IF s = "<:heart:7>" THEN [name |-> "heart", id |-> Some(7)]
    ELSE [name |-> s, id |-> None]

\* PartialEmoji.__eq__: unicode emojis compare by name, custom ones by id
EmojiEq(a, b) ==
    IF a.id = None THEN b.id = None /\ a.name = b.name
    ELSE a.id = b.id

SeqToSet(s) == {s[i] : i \in 1..Len(s)}

\* ---------------------------------------------------------------- config
\* is_watched adding the extra_emojis of every override of the config
is_watched_any_override(config, emoji, channel_id) ==
    LET watched_emojis ==
            SeqToSet(config.watched_emojis) \cup
            UNION {IF config.channel_overrides[o].extra_emojis = None
                   THEN {}
                   ELSE SeqToSet(config.channel_overrides[o].extra_emojis[1]) :
                   o \in DOMAIN config.channel_overrides}
    IN \E watched_emoji \in watched_emojis : EmojiEq(watched_emoji, emoji)

\* StarboardChannelConfig.is_watched
is_watched(config, emoji, channel_id) ==
    LET watched_emojis ==
            SeqToSet(config.watched_emojis) \cup
            (IF channel_id \in DOMAIN config.channel_overrides
             THEN (IF config.channel_overrides[channel_id].extra_emojis = None
                   THEN {}
                   ELSE SeqToSet(config.channel_overrides[channel_id].extra_emojis[1]))
             ELSE {})
    IN \E watched_emoji \in watched_emojis : EmojiEq(watched_emoji, emoji)

\* StarboardChannelConfig.relevant_required_reactions; `a or b` is b when a is
\* None or 0
relevant_required_reactions(config, channel_id) ==
    IF channel_id \in DOMAIN config.channel_overrides
    THEN LET r == config.channel_overrides[channel_id].required_reactions
         IN IF r = None \/ r = Some(0) THEN config.required_reactions ELSE r[1]
    ELSE config.required_reactions

\* A starboard config as /starboard add builds it (lines 311-318), with the
\* given threshold and watched emojis
NewConfig(channel_id, required_reactions, watched_emojis) ==
    [channel_id |-> channel_id,
     required_reactions |-> required_reactions,
     watched_emojis |-> watched_emojis,
     channel_overrides |-> [c \in {} |-> None],
     exclude |-> <<>>,
     exclude_is_include |-> FALSE]

\* ChannelConfigOverride (the dataclass of lines 27-31, built at lines 84-90
\* and 270-277)
ChannelConfigOverride(override_for, required_reactions, extra_emojis) ==
    [override_for |-> override_for,
     required_reactions |-> required_reactions,
     extra_emojis |-> extra_emojis]

\* ---------------------------------------------------------------- config file
\* the guild ids a key of guild_configs.json can name
GuildIds == {1, 2}

\* str(guild_id) and int(guild_id) of lines 77 and 103
str(n) == ToString(n)
int(s) == CHOOSE n \in GuildIds : ToString(n) = s

\* PartialEmoji.__str__: the name of a unicode emoji, "<:name:id>" of a custom one
emoji_str(emoji) ==
    IF emoji.id = None THEN emoji.name
    ELSE "<:" \o emoji.name \o ":" \o ToString(emoji.id[1]) \o ">"

\* list(map(str, emojis)) and list(map(discord.PartialEmoji.from_str, strings))
emoji_strs(emojis) == [i \in 1..Len(emojis) |-> emoji_str(emojis[i])]
from_strs(strings) == [i \in 1..Len(strings) |-> from_str(strings[i])]

RECURSIVE Sorted(_)
\* the numbers of a set in increasing order
Sorted(S) ==
    IF S = {} THEN <<>>
    ELSE LET x == CHOOSE x \in S : \A y \in S : x <= y
         IN <<x>> \o Sorted(S \ {x})

\* lines 109-113: the dict of one override; an empty extra_emojis is dumped
\* as null
dump_override(override) ==
    [override_for |-> override.override_for,
     required_reactions |-> override.required_reactions,
     extra_emojis |->
        IF override.extra_emojis = None \/ override.extra_emojis = Some(<<>>)
        THEN None
        ELSE Some(emoji_strs(override.extra_emojis[1]))]

\* lines 104-118: the dict of one channel config
dump_channel(channel) ==
    [channel_id |-> channel.channel_id,
     required_reactions |-> channel.required_reactions,
     watched_emojis |-> emoji_strs(channel.watched_emojis),
     channel_overrides |->
        LET keys == Sorted(DOMAIN channel.channel_overrides)
        IN [i \in 1..Len(keys) |-> dump_override(channel.channel_overrides[keys[i]])],
     exclude |-> channel.exclude,
     exclude_is_include |-> channel.exclude_is_include]

\* GuildConfigs.dump
dump(configs) ==
    [k \in {str(g) : g \in DOMAIN configs} |->
        [i \in 1..Len(configs[int(k)]) |-> dump_channel(configs[int(k)][i])]]

\* lines 84-90: one override of the file; a null or empty extra_emojis is
\* loaded as None
load_override(override) ==
    ChannelConfigOverride(
        override.override_for,
        override.required_reactions,
        IF override.extra_emojis = None \/ override.extra_emojis = Some(<<>>)
        THEN None
        ELSE Some(from_strs(override.extra_emojis[1])))

\* the item a dict comprehension over the list s keeps for the key k that is
\* read from the field `field`: the last item of s with that key
LastWith(s, field, k) ==
    s[CHOOSE i \in 1..Len(s) :
        s[i][field] = k /\ \A j \in (i + 1)..Len(s) : s[j][field] # k]

\* load of a file written before channel_overrides, exclude and
\* exclude_is_include existed: the three keys are not read
load_channel_first_version(channel) ==
    [channel_id |-> channel.channel_id,
     required_reactions |-> channel.required_reactions,
     watched_emojis |-> from_strs(channel.watched_emojis),
     channel_overrides |-> [c \in {} |-> None],
     exclude |-> <<>>,
     exclude_is_include |-> FALSE]

\* lines 78-95: one channel config of the file; the keys added later are
\* read with channel.get and a default
load_channel(channel) ==
    [channel_id |-> channel.channel_id,
     required_reactions |-> channel.required_reactions,
     watched_emojis |-> from_strs(channel.watched_emojis),
     channel_overrides |->
        LET overrides == IF "channel_overrides" \in DOMAIN channel
                         THEN channel.channel_overrides ELSE <<>>
        IN [c \in {overrides[i].override_for : i \in 1..Len(overrides)} |->
                load_override(LastWith(overrides, "override_for", c))],
     exclude |-> IF "exclude" \in DOMAIN channel THEN channel.exclude ELSE <<>>,
     exclude_is_include |->
        IF "exclude_is_include" \in DOMAIN channel
        THEN channel.exclude_is_include ELSE FALSE]

\* GuildConfigs.load: per guild a dict keyed by channel_id, so of two entries
\* of the file with one channel_id the first gives the position and the last
\* the value
load(file) ==
    [g \in {int(k) : k \in DOMAIN file} |->
        LET channels == file[str(g)]
            first == {i \in 1..Len(channels) :
                        \A j \in 1..(i - 1) : channels[j].channel_id # channels[i].channel_id}
            order == Sorted(first)
        IN [i \in 1..Len(order) |->
                load_channel(LastWith(channels, "channel_id", channels[order[i]].channel_id))]]

\* ---------------------------------------------------------------- store
\* The table starred_messages as setup_db declares it: every column is
\* NOT NULL and none has a default; original_id and starboard_message_id are
\* UNIQUE.
Columns == {"original_id", "starboard_message_id", "starboard_channel_id", "star_count"}
NotNullColumns == Columns
UniqueColumns == {"original_id", "starboard_message_id"}

\* INSERT INTO starred_messages (<DOMAIN values>) VALUES (...): a column that
\* is not named gets NULL; a NOT NULL or UNIQUE violation raises
\* sqlite3.IntegrityError and leaves the table unchanged.
Insert(st, values) ==
    IF ~(NotNullColumns \subseteq DOMAIN values)
    THEN [ok |-> FALSE, store |-> st]
    ELSE IF \E r \in st : \E c \in UniqueColumns : r[c] = values[c]
    THEN [ok |-> FALSE, store |-> st]
    ELSE [ok |-> TRUE, store |-> st \cup {values}]

\* SELECT starboard_message_id, star_count ... WHERE original_id = ? (fetchone)
Select(st, original_id) ==
    IF \E r \in st : r.original_id = original_id
    THEN LET r == CHOOSE r \in st : r.original_id = original_id
         IN Some([starboard_message_id |-> r.starboard_message_id,
                  star_count |-> r.star_count])
    ELSE None

\* UPDATE starred_messages SET star_count = ? WHERE original_id = ?
\* (no row matching: nothing changes and nothing is raised)
UpdateCount(st, original_id, star_count) ==
    {IF r.original_id = original_id THEN [r EXCEPT !.star_count = star_count] ELSE r
        : r \in st}

\* delete_from_db with the DELETE left out
delete_from_db_keeps_row(st, message_id) == st

\* Breadboard.delete_from_db
delete_from_db(st, message_id) ==
    {r \in st : r.original_id # message_id}

\* ---------------------------------------------------------------- state
VARIABLES
    guild_configs,      \* Breadboard.guild_configs: guild id -> its configs, in dict order
    allow_self_star,    \* settings.allow_self_star
    store,              \* the rows of starred_messages
    reactions,          \* platform: message -> emoji string -> users who reacted
    reaction_order,     \* platform: the order message.reactions lists the emojis in
    mirrors,            \* platform: the messages webhook.send has posted
    pc,                 \* per event: the await its coroutine is suspended at
    event,              \* per event: the RawReactionActionEvent
    relevant_configs,   \* per event: the configs selected (named by channel id)
    reaction_map,       \* per event: the snapshot built at lines 631-638
    idx,                \* per event: position of the for loop of line 640
    sql_response,       \* per event: what the SELECT of line 662 returned
    log,                \* per event: the decisions update_starboard_message took
    ext,                \* per event: answer of the last platform call
    exc,                \* per event: the exception the handler ended with
    observed,           \* per event: guild_configs[guild_id] as line 602 read it
    cog,                \* the cog: constructed, loaded, failed (cog_load raised), unloaded
    config_json,        \* the content of guild_configs.json
    pending,            \* the /starboard add suspended at line 320, if any
    reply               \* what the last command answered its user

vars == <<guild_configs, allow_self_star, store, reactions, reaction_order, mirrors, pc, event,
          relevant_configs, reaction_map, idx, sql_response, log, ext, exc,
          observed, cog, config_json, pending, reply>>

shared == <<guild_configs, allow_self_star, reactions, reaction_order, cog, config_json,
            pending, reply>>

EmptyMap == [k \in {} |-> {}]
NoEvent == [guild_id |-> None, channel_id |-> 0, message_id |-> 0, emoji |-> from_str("")]

\* dict helpers for guild_configs[g], kept as the sequence of its values
ChannelIds(configs) == {configs[i].channel_id : i \in 1..Len(configs)}
ConfigOf(guild_id, channel_id) ==
    LET configs == guild_configs[guild_id]
    IN configs[CHOOSE i \in 1..Len(configs) : configs[i].channel_id = channel_id]

RECURSIVE Filter(_, _)
\* [x for x in s if x in keep]
Filter(s, keep) ==
    IF s = <<>> THEN <<>>
    ELSE IF Head(s) \in keep THEN <<Head(s)>> \o Filter(Tail(s), keep)
    ELSE Filter(Tail(s), keep)

\* reactions_map.keys() in iteration order: the dict is built from
\* message.reactions (lines 631-638, 655-659) and keeps that order
keys(reactions_map) == Filter(reaction_order, DOMAIN reactions_map)

RECURSIVE for_emoji_users(_, _, _)
\* lines 146-148: the loop over reactions_map.items()
for_emoji_users(reactions_map, items, most_popular_emoji) ==
    IF items = <<>> THEN most_popular_emoji
    ELSE LET emoji == Head(items)
             users == reactions_map[emoji]
         IN for_emoji_users(reactions_map, Tail(items),
                IF Cardinality(users) > most_popular_emoji[2]
                THEN <<emoji, Cardinality(users)>>
                ELSE most_popular_emoji)

RECURSIVE for_emoji_users_or_equal(_, _, _)
\* the loop of lines 146-148 replacing on a tie as well
for_emoji_users_or_equal(reactions_map, items, most_popular_emoji) ==
    IF items = <<>> THEN most_popular_emoji
    ELSE LET emoji == Head(items)
             users == reactions_map[emoji]
         IN for_emoji_users_or_equal(reactions_map, Tail(items),
                IF Cardinality(users) >= most_popular_emoji[2]
                THEN <<emoji, Cardinality(users)>>
                ELSE most_popular_emoji)

\* get_top_emoji keeping the last of the most popular emojis
get_top_emoji_last(reactions_map) ==
    IF keys(reactions_map) = <<>> THEN None
    ELSE Some(for_emoji_users_or_equal(reactions_map, keys(reactions_map),
                                       <<keys(reactions_map)[1], 0>>)[1])

\* lines 144-149: get_top_emoji; None stands for the StopIteration that
\* next(iter(...)) raises on an empty map
get_top_emoji(reactions_map) ==
    IF keys(reactions_map) = <<>> THEN None
    ELSE Some(for_emoji_users(reactions_map, keys(reactions_map),
                              <<keys(reactions_map)[1], 0>>)[1])

\* ---------------------------------------------------------------- aggregation
\* lines 655-659: the reactions whose emoji the config watches
relevant_reaction_map(config, rmap, channel_id) ==
    [k \in {k \in DOMAIN rmap : is_watched(config, from_str(k), channel_id)} |-> rmap[k]]

RECURSIVE TotalOver(_, _)
\* the sum of the sizes of the user lists of the keys in ks
TotalOver(rmap, ks) ==
    IF ks = {} THEN 0
    ELSE LET k == CHOOSE k \in ks : TRUE
         IN Cardinality(rmap[k]) + TotalOver(rmap, ks \ {k})

\* lines 660, 722, 752 counting reactions instead of users
unique_reaction_count_of_reactions(rmap) == TotalOver(rmap, DOMAIN rmap)

\* lines 660, 722, 752: number of distinct users in the map
unique_reaction_count(rmap) ==
    Cardinality(UNION {rmap[k] : k \in DOMAIN rmap})

\* lines 631-638 without the filter of lines 636-637
BuildReactionMap_keeps_author(m) ==
    [k \in {k \in EmojiStrings : reactions[m][k] # {}} |-> reactions[m][k]]

\* lines 631-638: every reaction of the message with its users, the author
\* left out unless allow_self_star
BuildReactionMap(m) ==
    [k \in {k \in EmojiStrings : reactions[m][k] # {}} |->
        {u \in reactions[m][k] : allow_self_star \/ u # Origin[m].author}]

\* ---------------------------------------------------------------- decision
\* update_starboard_message with `>` for the `>=` of line 667
update_starboard_message_strict(config, message_id, channel_id, rmap, st) ==
    LET count == unique_reaction_count(relevant_reaction_map(config, rmap, channel_id))
        required == relevant_required_reactions(config, channel_id)
        sql == Select(st, message_id)
        entry(intent) == [channel_id |-> config.channel_id, count |-> count,
                          required |-> required, sql |-> sql, intent |-> intent]
    IN IF count > required
       THEN IF sql = None
            THEN [entry |-> entry("create"), store |-> st]
            ELSE IF count # sql[1].star_count
            THEN [entry |-> entry("update"), store |-> UpdateCount(st, message_id, count)]
            ELSE [entry |-> entry("none"), store |-> st]
       ELSE IF sql # None
            THEN [entry |-> entry("delete"), store |-> delete_from_db(st, message_id)]
            ELSE [entry |-> entry("none"), store |-> st]

\* update_starboard_message up to its first await: the count, the SELECT, the
\* branch taken, and the statements the callee runs before it first suspends
\* (the UPDATE of lines 754-758, delete_from_db of line 780).
update_starboard_message(config, message_id, channel_id, rmap, st) ==
    LET count == unique_reaction_count(relevant_reaction_map(config, rmap, channel_id))
        required == relevant_required_reactions(config, channel_id)
        sql == Select(st, message_id)
        entry(intent) == [channel_id |-> config.channel_id, count |-> count,
                          required |-> required, sql |-> sql, intent |-> intent]
    IN IF count >= required
       THEN IF sql = None
            THEN [entry |-> entry("create"), store |-> st]
            ELSE IF count # sql[1].star_count
            THEN [entry |-> entry("update"), store |-> UpdateCount(st, message_id, count)]
            ELSE [entry |-> entry("none"), store |-> st]
       ELSE IF sql # None
            THEN [entry |-> entry("delete"), store |-> delete_from_db(st, message_id)]
            ELSE [entry |-> entry("none"), store |-> st]

RECURSIVE RunLoop(_, _, _, _, _, _)
\* The for loop of lines 640-646 from position i, run until a call suspends
\* at a platform call or the loop ends.
RunLoop(ev, configs, i, rmap, st, lg) ==
    IF i > Len(configs)
    THEN [idx |-> i, intent |-> "none", store |-> st, log |-> lg, sql |-> None]
    ELSE LET d == update_starboard_message(ConfigOf(ev.guild_id[1], configs[i]),
                                           ev.message_id, ev.channel_id, rmap, st)
         IN IF d.entry.intent = "none"
            THEN RunLoop(ev, configs, i + 1, rmap, d.store, Append(lg, d.entry))
            ELSE [idx |-> i, intent |-> d.entry.intent, store |-> d.store,
                  log |-> Append(lg, d.entry), sql |-> d.entry.sql]

\* ---------------------------------------------------------------- steps
\* The handler ends, returning (x = "none") or raising x, after the platform
\* call `call` answered `answer`; the selection is set to configs.
FinishWith(e, x, call, answer, configs) ==
    /\ pc' = [pc EXCEPT ![e] = "done"]
    /\ exc' = [exc EXCEPT ![e] = x]
    /\ ext' = [ext EXCEPT ![e] = [call |-> call, answer |-> answer]]
    /\ relevant_configs' = [relevant_configs EXCEPT ![e] = configs]
    /\ reaction_map' = [reaction_map EXCEPT ![e] = EmptyMap]
    /\ idx' = [idx EXCEPT ![e] = 0]
    /\ sql_response' = [sql_response EXCEPT ![e] = None]

Finish(e, x, call, answer) == FinishWith(e, x, call, answer, relevant_configs[e])

\* The coroutine goes on to its next await, at label
Goto(e, label, call) ==
    /\ pc' = [pc EXCEPT ![e] = label]
    /\ ext' = [ext EXCEPT ![e] = [call |-> call, answer |-> "ok"]]
    /\ UNCHANGED <<reaction_map, idx, sql_response, exc>>

\* Run the for loop from position i with the table as st, up to the next
\* platform call of a create, update or delete, or to the end of the handler.
Enter(e, i, rmap, st, call) ==
    LET r == RunLoop(event[e], relevant_configs[e], i, rmap, st, log[e])
    IN /\ store' = r.store
       /\ log' = [log EXCEPT ![e] = r.log]
       /\ IF r.intent = "none"
          THEN Finish(e, "none", call, "ok")
          ELSE /\ pc' = [pc EXCEPT ![e] =
                        CASE r.intent = "create" -> "create_webhook"
                          [] r.intent = "update" -> "update_webhook"
                          [] OTHER -> "delete_webhook"]
               /\ ext' = [ext EXCEPT ![e] = [call |-> call, answer |-> "ok"]]
               /\ reaction_map' = [reaction_map EXCEPT ![e] = rmap]
               /\ idx' = [idx EXCEPT ![e] = r.idx]
               /\ sql_response' = [sql_response EXCEPT ![e] = r.sql]
               /\ UNCHANGED <<exc, relevant_configs>>

\* the guards of lines 596-597 without the starboard-channel guard of line 599
rejected_by_guild_only(reaction_event) ==
    reaction_event.guild_id = None
        \/ reaction_event.guild_id[1] \notin DOMAIN guild_configs

\* lines 596-600: the event is dropped when it has no guild, when its guild
\* has no configuration, or when its channel is a starboard of its guild
rejected(reaction_event) ==
    IF reaction_event.guild_id = None
        \/ reaction_event.guild_id[1] \notin DOMAIN guild_configs
    THEN TRUE
    ELSE reaction_event.channel_id \in ChannelIds(guild_configs[reaction_event.guild_id[1]])

\* lines 596-606: the event arrives; the guards and the selection of the
\* configs watching the event's emoji, up to the await of fetch_channel
on_raw_reaction_update(e) ==
    /\ pc[e] = "idle"
    /\ \A f \in Events : f < e => pc[f] # "idle"    \* events are numbered as they arrive
    /\ \E m \in Messages, em \in EmojiStrings :
        LET reaction_event == [guild_id |-> Origin[m].guild_id,
                               channel_id |-> Origin[m].channel_id,
                               message_id |-> m,
                               emoji |-> from_str(em)]
        IN /\ event' = [event EXCEPT ![e] = reaction_event]
           /\ observed' = [observed EXCEPT ![e] =
                    IF rejected(reaction_event) THEN <<>>
                    ELSE guild_configs[reaction_event.guild_id[1]]]
           /\ IF rejected(reaction_event)
              THEN Finish(e, "none", "none", "none")
              ELSE LET configs == guild_configs[reaction_event.guild_id[1]]
                       watching == {configs[i].channel_id : i \in
                                      {i \in 1..Len(configs) :
                                          is_watched(configs[i], reaction_event.emoji,
                                                     reaction_event.channel_id)}}
                   IN /\ relevant_configs' = [relevant_configs EXCEPT ![e] =
                            Filter([i \in 1..Len(configs) |-> configs[i].channel_id],
                                   watching)]
                      /\ pc' = [pc EXCEPT ![e] = "fetch_channel"]
                      /\ UNCHANGED <<reaction_map, idx, sql_response, ext, exc>>
    /\ UNCHANGED <<shared, store, mirrors, log>>

\* the filter of lines 612-616 reading exclude as a deny list whatever the mode
admitted_by_deny_list(config, channel_id) ==
    channel_id \notin SeqToSet(config.exclude)

\* lines 612-616: (channel.id not in config.exclude) ^ config.exclude_is_include
admitted(config, channel_id) ==
    (channel_id \notin SeqToSet(config.exclude)) # config.exclude_is_include

\* lines 607-618: the channel is resolved; the exclusion filter
FetchChannel(e) ==
    /\ pc[e] = "fetch_channel"
    /\ \E answer \in {"ok", "error"} :
        IF answer = "error"
        THEN Finish(e, "HTTPException", "fetch_channel", answer)
        ELSE LET g == event[e].guild_id[1]
                 kept == {c \in SeqToSet(relevant_configs[e]) :
                            admitted(ConfigOf(g, c), event[e].channel_id)}
                 configs == Filter(relevant_configs[e], kept)
             IN IF configs = <<>>
                THEN FinishWith(e, "none", "fetch_channel", answer, configs)
                ELSE /\ Goto(e, "fetch_message", "fetch_channel")
                     /\ relevant_configs' = [relevant_configs EXCEPT ![e] = configs]
    /\ UNCHANGED <<shared, store, mirrors, event, observed, log>>

\* lines 620-629 taking a message that is gone for a retraction: its row is
\* deleted
FetchMessage_retracts(e) ==
    /\ pc[e] = "fetch_message"
    /\ \E answer \in {"ok", "NotFound", "error"} :
        IF answer = "ok"
        THEN /\ Goto(e, "reaction_users", "fetch_message")
             /\ UNCHANGED <<relevant_configs, store>>
        ELSE /\ Finish(e, IF answer = "NotFound" THEN "none" ELSE "HTTPException",
                       "fetch_message", answer)
             /\ store' = IF answer = "NotFound"
                         THEN delete_from_db(store, event[e].message_id)
                         ELSE store
    /\ UNCHANGED <<shared, mirrors, event, observed, log>>

\* lines 620-629: the message is fetched; NotFound is a plain return
FetchMessage(e) ==
    /\ pc[e] = "fetch_message"
    /\ \E answer \in {"ok", "NotFound", "error"} :
        IF answer = "ok"
        THEN Goto(e, "reaction_users", "fetch_message") /\ UNCHANGED relevant_configs
        ELSE Finish(e, IF answer = "NotFound" THEN "none" ELSE "HTTPException",
                    "fetch_message", answer)
    /\ UNCHANGED <<shared, store, mirrors, event, observed, log>>

\* lines 631-646: the users of every reaction are read, then the loop starts
ReactionUsers(e) ==
    /\ pc[e] = "reaction_users"
    /\ \E answer \in {"ok", "error"} :
        IF answer = "ok"
        THEN Enter(e, 1, BuildReactionMap(event[e].message_id), store, "users")
        ELSE /\ Finish(e, "HTTPException", "users", answer)
             /\ UNCHANGED <<store, log>>
    /\ UNCHANGED <<shared, mirrors, event, observed>>

\* fetch_starboard_webhook as its callers see it: the webhook, discord.NotFound
\* (the channel is gone) or RuntimeError (lines 579-582)
WebhookAnswers == {"ok", "NotFound", "error"}
WebhookError(answer) == IF answer = "NotFound" THEN "NotFound" ELSE "RuntimeError"
CallError(answer) == IF answer = "NotFound" THEN "NotFound" ELSE "HTTPException"

\* create_starboard_message inserting its row before it resolves the webhook
CreateFetchWebhook_row_first(e) ==
    /\ pc[e] = "create_webhook"
    /\ \E answer \in WebhookAnswers :
        IF answer = "ok"
        THEN Goto(e, "create_send", "fetch_webhook") /\ UNCHANGED relevant_configs
        ELSE Finish(e, WebhookError(answer), "fetch_webhook", answer)
    /\ store' = store \cup
            {[original_id |-> event[e].message_id, starboard_message_id |-> 0,
              starboard_channel_id |-> relevant_configs[e][idx[e]], star_count |-> 0]}
    /\ UNCHANGED <<shared, mirrors, event, observed, log>>

\* line 698: create_starboard_message resolves the webhook
CreateFetchWebhook(e) ==
    /\ pc[e] = "create_webhook"
    /\ \E answer \in WebhookAnswers :
        IF answer = "ok"
        THEN Goto(e, "create_send", "fetch_webhook") /\ UNCHANGED relevant_configs
        ELSE Finish(e, WebhookError(answer), "fetch_webhook", answer)
    /\ UNCHANGED <<shared, store, mirrors, event, observed, log>>

\* lines 739-742: the columns and values of the INSERT
InsertValues(message_id, webhook_msg_id, count) ==
    [original_id |-> message_id,
     starboard_message_id |-> webhook_msg_id,
     star_count |-> count]

\* lines 722-743: the view of the mirror is built (a StopIteration of
\* get_top_emoji leaves the coroutine as a RuntimeError before anything is
\* sent), the mirror is sent, then the row is inserted; an IntegrityError of
\* the INSERT leaves the handler
CreateSend(e) ==
    /\ pc[e] = "create_send"
    /\ \E answer \in {"ok", "error"} :
        LET config == ConfigOf(event[e].guild_id[1], relevant_configs[e][idx[e]])
            relevant == relevant_reaction_map(config, reaction_map[e], event[e].channel_id)
            count == unique_reaction_count(relevant)
            star_emoji == get_top_emoji(relevant)
        IN
        IF star_emoji = None
        THEN /\ Finish(e, "RuntimeError", ext[e].call, ext[e].answer)
             /\ UNCHANGED <<store, mirrors, log>>
        ELSE IF answer = "error"
        THEN /\ Finish(e, "HTTPException", "send", answer)
             /\ UNCHANGED <<store, mirrors, log>>
        ELSE LET webhook_msg == [id |-> 101 + Cardinality(mirrors),
                                 channel_id |-> config.channel_id,
                                 original_id |-> event[e].message_id,
                                 star_count |-> count,
                                 star_emoji |-> star_emoji[1]]
                 ins == Insert(store, InsertValues(event[e].message_id, webhook_msg.id, count))
             IN /\ mirrors' = mirrors \cup {webhook_msg}
                /\ IF ins.ok
                   THEN Enter(e, idx[e] + 1, reaction_map[e], ins.store, "send")
                   ELSE /\ Finish(e, "IntegrityError", "send", answer)
                        /\ store' = ins.store
                        /\ UNCHANGED log
    /\ UNCHANGED <<shared, event, observed>>

\* the handler of lines 770-772 swallowing the exception and keeping the row
except_NotFound_swallowed(st, message_id) ==
    [store |-> st, raised |-> "none"]

\* lines 770-772: `except discord.NotFound` of update_starboard_message_button:
\* the row is deleted and the exception raised again
except_NotFound(st, message_id) ==
    [store |-> delete_from_db(st, message_id), raised |-> "NotFound"]

\* lines 760-761: update_starboard_message_button resolves the webhook, inside
\* the try
UpdateFetchWebhook(e) ==
    /\ pc[e] = "update_webhook"
    /\ \E answer \in WebhookAnswers :
        CASE answer = "ok" ->
                /\ Goto(e, "update_edit", "fetch_webhook")
                /\ UNCHANGED <<relevant_configs, store>>
          [] answer = "NotFound" ->
                LET h == except_NotFound(store, event[e].message_id)
                IN /\ Finish(e, h.raised, "fetch_webhook", answer)
                   /\ store' = h.store
          [] OTHER ->
                /\ Finish(e, WebhookError(answer), "fetch_webhook", answer)
                /\ UNCHANGED store
    /\ UNCHANGED <<shared, mirrors, event, observed, log>>

\* lines 762-772: the button of the mirror is edited, inside the try
UpdateEdit(e) ==
    /\ pc[e] = "update_edit"
    /\ \E answer \in {"ok", "NotFound", "error"} :
        CASE answer = "ok" ->
                Enter(e, idx[e] + 1, reaction_map[e], store, "edit_message")
          [] answer = "NotFound" ->
                LET h == except_NotFound(store, event[e].message_id)
                IN /\ Finish(e, h.raised, "edit_message", answer)
                   /\ store' = h.store
                   /\ UNCHANGED log
          [] OTHER ->
                /\ Finish(e, CallError(answer), "edit_message", answer)
                /\ UNCHANGED <<store, log>>
    /\ UNCHANGED <<shared, mirrors, event, observed>>

\* line 781: delete_starboard_message resolves the webhook (the row is
\* already deleted, line 780)
DeleteFetchWebhook(e) ==
    /\ pc[e] = "delete_webhook"
    /\ \E answer \in WebhookAnswers :
        IF answer = "ok"
        THEN Goto(e, "delete_message", "fetch_webhook") /\ UNCHANGED relevant_configs
        ELSE Finish(e, WebhookError(answer), "fetch_webhook", answer)
    /\ UNCHANGED <<shared, store, mirrors, event, observed, log>>

\* line 782: the mirror is deleted; nothing catches what the call raises
DeleteMessage(e) ==
    /\ pc[e] = "delete_message"
    /\ \E answer \in {"ok", "NotFound", "error"} :
        IF answer = "ok"
        THEN Enter(e, idx[e] + 1, reaction_map[e], store, "delete_message")
        ELSE /\ Finish(e, CallError(answer), "delete_message", answer)
             /\ UNCHANGED <<store, log>>
    /\ UNCHANGED <<shared, mirrors, event, observed>>

\* ---------------------------------------------------------------- specification
star == from_str("star")
heart == from_str("<:heart:7>")

\* Guild 1 with two starboards: channel 20 watches the star, channel 21 the
\* star and the heart and may exclude (or only include) channel 10.
Configs(r20, r21, exclude, exclude_is_include) ==
    [g \in ConfiguredGuild |->
        <<NewConfig(20, r20, <<star>>),
          [NewConfig(21, r21, <<star, heart>>) EXCEPT
                !.exclude = exclude, !.exclude_is_include = exclude_is_include]>>]

\* every pair of positive thresholds, every exclusion policy of channel 21
WideConfigs ==
    {Configs(r20, r21, x, i) :
        r20 \in 1..MaxRequired, r21 \in 1..MaxRequired,
        x \in {<<>>, <<10>>}, i \in BOOLEAN}

\* one configuration: the largest threshold for 20, one reaction for 21
NarrowConfigs == {Configs(MaxRequired, 1, <<>>, FALSE)}

\* The table as the database file holds it when the cog is constructed
\* (lines 515-516, CREATE TABLE IF NOT EXISTS keeps the rows of earlier runs):
\* empty, or a row for message 1 mirrored in starboard 20.
InitStores ==
    {{}} \cup
    {{[original_id |-> 1, starboard_message_id |-> 100,
       starboard_channel_id |-> 20, star_count |-> c]} : c \in Users}

\* Message 1 carries the reactions r; the other messages are starred by everyone.
ReactionsOf(r) ==
    [m \in Messages |-> IF m = 1 THEN r ELSE [k \in EmojiStrings |-> Users]]

\* any users on any emoji of message 1
WideReactions == {ReactionsOf(r) : r \in [EmojiStrings -> SUBSET Users]}

\* the first k users starred message 1, nobody reacted with the heart
NarrowReactions ==
    {ReactionsOf([k \in EmojiStrings |-> IF k = "star" THEN 1..n ELSE {}]) : n \in 0..MaxUsers}

\* message.reactions lists the star first, or the heart first
ListedOrder == <<"star", "<:heart:7>">>
ReactionOrders == {ListedOrder, <<"<:heart:7>", "star">>}

InitOrdered(configs, reacts, orders) ==
    /\ guild_configs \in configs
    /\ allow_self_star \in BOOLEAN
    /\ store \in InitStores
    /\ reactions \in reacts
    /\ reaction_order \in orders
    /\ mirrors = {}
    /\ pc = [e \in Events |-> "idle"]
    /\ event = [e \in Events |-> NoEvent]
    /\ relevant_configs = [e \in Events |-> <<>>]
    /\ reaction_map = [e \in Events |-> EmptyMap]
    /\ idx = [e \in Events |-> 0]
    /\ sql_response = [e \in Events |-> None]
    /\ log = [e \in Events |-> <<>>]
    /\ ext = [e \in Events |-> [call |-> "none", answer |-> "none"]]
    /\ exc = [e \in Events |-> "none"]
    /\ observed = [e \in Events |-> <<>>]
    /\ cog = "loaded"
    /\ config_json = dump(guild_configs)
    /\ pending = None
    /\ reply = "none"

InitWith(configs, reacts) == InitOrdered(configs, reacts, {ListedOrder})

\* One step of the coroutine of event e after it has arrived
Step(e) ==
    \/ FetchChannel(e)
    \/ FetchMessage(e)
    \/ ReactionUsers(e)
    \/ CreateFetchWebhook(e)
    \/ CreateSend(e)
    \/ UpdateFetchWebhook(e)
    \/ UpdateEdit(e)
    \/ DeleteFetchWebhook(e)
    \/ DeleteMessage(e)

\* Spec: the events are handled concurrently, the coroutines switching at
\* every await.
Init == InitWith(NarrowConfigs, NarrowReactions)

Next ==
    \E e \in Events :
        \/ on_raw_reaction_update(e)
        \/ Step(e)

Spec == Init /\ [][Next]_vars

\* SpecSeq: an event arrives only when no other is being handled.
Quiet == \A e \in Events : pc[e] \in {"idle", "done"}

NextSeq ==
    \E e \in Events :
        \/ Quiet /\ on_raw_reaction_update(e)
        \/ Step(e)

SpecSeq == Init /\ [][NextSeq]_vars

\* SpecWide: a single event, over every configuration and reaction state.
InitWide == InitWith(WideConfigs, WideReactions)

NextWide ==
    \/ on_raw_reaction_update(1)
    \/ Step(1)

SpecWide == InitWide /\ [][NextWide]_vars

\* SpecTop: a single event, over every reaction state in either order
InitTop == InitOrdered(NarrowConfigs, WideReactions, ReactionOrders)

SpecTop == InitTop /\ [][NextWide]_vars

\* ---------------------------------------------------------------- the count write
\* lines 745-758: update_starboard_message_button taken on its own, called
\* with any message of the guild and any of its configs, whether or not the
\* table holds a row for the message: the count, the UPDATE and the commit,
\* up to the await of fetch_starboard_webhook. The decision logged is the one
\* of a caller that chose the update, with what the table held for the message.
update_starboard_message_button(e) ==
    /\ pc[e] = "idle"
    /\ \E m \in {m \in Messages : Origin[m].guild_id = Some(CHOOSE g \in ConfiguredGuild : TRUE)},
          channel \in StarboardChannels :
        LET config == ConfigOf(Origin[m].guild_id[1], channel)
            rmap == BuildReactionMap(m)
            count == unique_reaction_count(
                        relevant_reaction_map(config, rmap, Origin[m].channel_id))
        IN /\ event' = [event EXCEPT ![e] = [guild_id |-> Origin[m].guild_id,
                                              channel_id |-> Origin[m].channel_id,
                                              message_id |-> m,
                                              emoji |-> star]]
           /\ store' = UpdateCount(store, m, count)
           /\ log' = [log EXCEPT ![e] = <<[channel_id |-> channel, count |-> count,
                        required |-> relevant_required_reactions(config, Origin[m].channel_id),
                        sql |-> Select(store, m), intent |-> "update"]>>]
           /\ relevant_configs' = [relevant_configs EXCEPT ![e] = <<channel>>]
           /\ reaction_map' = [reaction_map EXCEPT ![e] = rmap]
           /\ idx' = [idx EXCEPT ![e] = 1]
           /\ sql_response' = [sql_response EXCEPT ![e] = Select(store, m)]
           /\ pc' = [pc EXCEPT ![e] = "update_webhook"]
    /\ UNCHANGED <<shared, mirrors, ext, exc, observed>>

\* SpecButton: one call of update_starboard_message_button, run to its end
InitButton == InitWith(NarrowConfigs, WideReactions)

NextButton ==
    \/ update_starboard_message_button(1)
    \/ UpdateFetchWebhook(1)
    \/ UpdateEdit(1)

SpecButton == InitButton /\ [][NextButton]_vars

\* ---------------------------------------------------------------- overrides
\* the source channels an override can be for: the channel of message 1 and
\* another channel of the guild
OverrideChannels == {10, 11}

\* channel_overrides[override.override_for] = override (lines 84, 199)
WithOverride(config, override) ==
    [config EXCEPT !.channel_overrides =
        [c \in DOMAIN config.channel_overrides \cup {override.override_for} |->
            IF c = override.override_for THEN override
            ELSE config.channel_overrides[c]]]

\* guild_configs.json as load accepts it (lines 83-92 check no value): starboard
\* 20 carries one override, for either source channel, whose
\* required_reactions is null, 0 or a positive number and whose extra_emojis
\* is null or the heart
OverrideConfigs ==
    {[g \in ConfiguredGuild |->
        <<WithOverride(NewConfig(20, r20, <<star>>), ChannelConfigOverride(o, q, x)),
          NewConfig(21, 1, <<star, heart>>)>>] :
        r20 \in 1..MaxRequired, o \in OverrideChannels,
        q \in {None} \cup {Some(n) : n \in 0..MaxRequired},
        x \in {None, Some(<<heart>>)}}

\* SpecOverride: one event under the configurations with an override
InitOverride == InitWith(OverrideConfigs, NarrowReactions)

SpecOverride == InitOverride /\ [][NextWide]_vars

\* ---------------------------------------------------------------- commands
\* The slash commands and the buttons of ManageStarboardButtons, used in
\* guild 1 on the starboard channel 20; a button acts on the config its view
\* holds, taken here to be the one guild_configs holds for that channel.
CommandGuild == 1
CommandChannels == {20}

\* settings.default_required_stars and settings.default_emojis (lines 301, 316)
default_required_stars == MaxRequired
default_emojis == <<"star">>

\* the required_reactions argument of a command: left out, or an integer
ThresholdArgs == {None} \cup {Some(n) : n \in (-1)..MaxRequired}

\* the decimal numerals int() reads, each with its value
Numerals == {<<ToString(n), n>> : n \in (-1)..10}

\* int(text) of lines 255 and 261: the number, or None for ValueError
int_or_ValueError(text) ==
    IF \E numeral \in Numerals : numeral[1] = text
    THEN Some((CHOOSE numeral \in Numerals : numeral[1] = text)[2])
    ELSE None

\* what a user can type into the fields of OverrideModal
ChannelInputs == {"10", "general"}
RequiredInputs == {""} \cup {ToString(n) : n \in (-1)..MaxRequired} \cup {"many"}
ExtraEmojiInputs == {"", "<:heart:7>"}

\* [emoji.strip() for emoji in value.split(",")] of lines 273-276, for a
\* value without commas or blanks
split_strip(value) == <<value>>

\* everything a command leaves alone
handlers == <<allow_self_star, store, reactions, reaction_order, mirrors, pc, event, relevant_configs,
              reaction_map, idx, sql_response, log, ext, exc, observed, cog, config_json>>

\* self.guild_configs.get(guild_id, {})
GuildGet(guild_id) ==
    IF guild_id \in DOMAIN guild_configs THEN guild_configs[guild_id] ELSE <<>>

\* guild_configs with the dict of guild_id set to configs
GuildSet(guild_id, configs) ==
    [g \in DOMAIN guild_configs \cup {guild_id} |->
        IF g = guild_id THEN configs ELSE guild_configs[g]]

\* an attribute of the config object of channel_id assigned in place
Mutated(channel_id, config) ==
    GuildSet(CommandGuild,
             [i \in 1..Len(guild_configs[CommandGuild]) |->
                IF guild_configs[CommandGuild][i].channel_id = channel_id
                THEN config ELSE guild_configs[CommandGuild][i]])

RECURSIVE Remove(_, _)
\* list.remove(x): the first item equal to x is taken out
Remove(s, x) ==
    IF s = <<>> THEN <<>>
    ELSE IF Head(s) = x THEN Tail(s)
    ELSE <<Head(s)>> \o Remove(Tail(s), x)

\* the guard of lines 302 and 346 with `<` for `<=`
non_positive_strict(required_reactions) == required_reactions < 0

\* lines 302, 346, 264: required_reactions <= 0
non_positive(required_reactions) == required_reactions <= 0

\* lines 300-320 of /starboard add: the checks, and the config built, up to
\* the await of fetch_starboard_webhook
starboard_add_cmd(channel, arg) ==
    /\ cog = "loaded"
    /\ pending = None
    /\ LET required_reactions == IF arg = None THEN default_required_stars ELSE arg[1]
       IN IF non_positive(required_reactions)
          THEN reply' = "must be greater than 0" /\ UNCHANGED pending
          ELSE IF channel \in ChannelIds(GuildGet(CommandGuild))
          THEN reply' = "already a starboard" /\ UNCHANGED pending
          ELSE /\ pending' = Some(NewConfig(channel, required_reactions,
                                            from_strs(default_emojis)))
               /\ reply' = "none"
    /\ UNCHANGED <<guild_configs, handlers>>

\* /starboard add storing the config before fetch_starboard_webhook answers
AddFetchWebhook_config_first ==
    /\ pending # None
    /\ \E answer \in {"ok", "Forbidden", "error"} :
        /\ guild_configs' = GuildSet(CommandGuild, Append(GuildGet(CommandGuild), pending[1]))
        /\ reply' = CASE answer = "ok" -> "added"
                       [] answer = "Forbidden" -> "no access"
                       [] OTHER -> "raised"
    /\ pending' = None
    /\ UNCHANGED handlers

\* lines 320-332 of /starboard add: the webhook is there, the bot may not see
\* the channel (Forbidden, answered), or fetch_starboard_webhook raises
\* something else (lines 567-582, not caught)
AddFetchWebhook ==
    /\ pending # None
    /\ \E answer \in {"ok", "Forbidden", "error"} :
        /\ IF answer = "ok"
           THEN /\ guild_configs' =
                     LET configs == GuildGet(CommandGuild)
                         config == pending[1]
                     IN GuildSet(CommandGuild,
                            IF config.channel_id \in ChannelIds(configs)
                            THEN [i \in 1..Len(configs) |->
                                    IF configs[i].channel_id = config.channel_id
                                    THEN config ELSE configs[i]]
                            ELSE Append(configs, config))
                /\ reply' = "added"
           ELSE /\ UNCHANGED guild_configs
                /\ reply' = IF answer = "Forbidden" THEN "no access" ELSE "raised"
    /\ pending' = None
    /\ UNCHANGED handlers

\* /starboard modify
starboard_modify_cmd(channel, arg) ==
    /\ cog = "loaded"
    /\ LET required_reactions == IF arg = None THEN default_required_stars ELSE arg[1]
       IN IF non_positive(required_reactions)
          THEN reply' = "must be greater than 0" /\ UNCHANGED guild_configs
          ELSE IF channel \notin ChannelIds(GuildGet(CommandGuild))
          THEN reply' = "not a starboard" /\ UNCHANGED guild_configs
          ELSE /\ guild_configs' =
                    Mutated(channel, [ConfigOf(CommandGuild, channel) EXCEPT
                                         !.required_reactions = required_reactions])
               /\ reply' = "modified"
    /\ UNCHANGED <<pending, handlers>>

\* /starboard remove
starboard_remove_cmd(channel) ==
    /\ cog = "loaded"
    /\ IF channel \notin ChannelIds(GuildGet(CommandGuild))
       THEN reply' = "not a starboard" /\ UNCHANGED guild_configs
       ELSE LET configs == guild_configs[CommandGuild]
                left == Filter([i \in 1..Len(configs) |-> configs[i].channel_id],
                               ChannelIds(configs) \ {channel})
                kept == [i \in 1..Len(left) |-> ConfigOf(CommandGuild, left[i])]
            IN /\ guild_configs' =
                    IF kept = <<>>
                    THEN [g \in DOMAIN guild_configs \ {CommandGuild} |-> guild_configs[g]]
                    ELSE GuildSet(CommandGuild, kept)
               /\ reply' = "removed"
    /\ UNCHANGED <<pending, handlers>>

\* /starboard exclude add
starboard_exclude_add_cmd(starboard_channel, exclude_channel) ==
    /\ cog = "loaded"
    /\ IF starboard_channel \notin ChannelIds(GuildGet(CommandGuild))
       THEN reply' = "not a starboard" /\ UNCHANGED guild_configs
       ELSE LET relevant_config == ConfigOf(CommandGuild, starboard_channel)
            IN IF exclude_channel \in SeqToSet(relevant_config.exclude)
               THEN reply' = "already excluded" /\ UNCHANGED guild_configs
               ELSE /\ guild_configs' =
                         Mutated(starboard_channel,
                                 [relevant_config EXCEPT
                                    !.exclude = Append(@, exclude_channel)])
                    /\ reply' = "excluded"
    /\ UNCHANGED <<pending, handlers>>

\* /starboard exclude remove (the second starboard_exclude_add_cmd, lines 438-459)
starboard_exclude_remove_cmd(starboard_channel, exclude_channel) ==
    /\ cog = "loaded"
    /\ IF starboard_channel \notin ChannelIds(GuildGet(CommandGuild))
       THEN reply' = "not a starboard" /\ UNCHANGED guild_configs
       ELSE LET relevant_config == ConfigOf(CommandGuild, starboard_channel)
            IN IF exclude_channel \notin SeqToSet(relevant_config.exclude)
               THEN reply' = "not excluded" /\ UNCHANGED guild_configs
               ELSE /\ guild_configs' =
                         Mutated(starboard_channel,
                                 [relevant_config EXCEPT
                                    !.exclude = Remove(@, exclude_channel)])
                    /\ reply' = "exclusion removed"
    /\ UNCHANGED <<pending, handlers>>

\* /starboard exclude invert
starboard_exclude_invert_cmd(starboard_channel, is_whitelist) ==
    /\ cog = "loaded"
    /\ IF starboard_channel \notin ChannelIds(GuildGet(CommandGuild))
       THEN reply' = "not a starboard" /\ UNCHANGED guild_configs
       ELSE LET relevant_config == ConfigOf(CommandGuild, starboard_channel)
            IN /\ guild_configs' =
                    Mutated(starboard_channel,
                            [relevant_config EXCEPT !.exclude_is_include =
                                IF is_whitelist = None THEN ~@ ELSE is_whitelist[1]])
               /\ reply' = "inverted"
    /\ UNCHANGED <<pending, handlers>>

\* ManageStarboardButtons.add_emoji once the modal is submitted with text
add_emoji(channel, text) ==
    /\ cog = "loaded"
    /\ channel \in ChannelIds(GuildGet(CommandGuild))
    /\ Len(ConfigOf(CommandGuild, channel).watched_emojis) < MaxWatched
    /\ guild_configs' =
          Mutated(channel, [ConfigOf(CommandGuild, channel) EXCEPT
                               !.watched_emojis = Append(@, from_str(text))])
    /\ reply' = "emoji added"
    /\ UNCHANGED <<pending, handlers>>

RECURSIVE RemoveEmoji(_, _)
\* list.remove(emoji): the first item == emoji is taken out
RemoveEmoji(s, emoji) ==
    IF s = <<>> THEN <<>>
    ELSE IF EmojiEq(Head(s), emoji) THEN Tail(s)
    ELSE <<Head(s)>> \o RemoveEmoji(Tail(s), emoji)

\* ManageStarboardButtons.remove_emoji once the modal is submitted with text
remove_emoji(channel, text) ==
    /\ cog = "loaded"
    /\ channel \in ChannelIds(GuildGet(CommandGuild))
    /\ LET config == ConfigOf(CommandGuild, channel)
           emoji == from_str(text)
       IN IF ~\E w \in SeqToSet(config.watched_emojis) : EmojiEq(w, emoji)
          THEN reply' = "not being watched" /\ UNCHANGED guild_configs
          ELSE /\ guild_configs' =
                    Mutated(channel, [config EXCEPT
                                         !.watched_emojis = RemoveEmoji(@, emoji)])
               /\ reply' = "emoji removed"
    /\ UNCHANGED <<pending, handlers>>

\* ManageStarboardButtons.override_config with OverrideModal.on_submit: the
\* three fields are parsed and checked, and an accepted override is stored
override_config(channel, channel_input, required_reactions_input, extra_emojis_input) ==
    /\ cog = "loaded"
    /\ channel \in ChannelIds(GuildGet(CommandGuild))
    /\ LET override_for == int_or_ValueError(channel_input)
           parsed == int_or_ValueError(required_reactions_input)
           required_reactions ==
               IF required_reactions_input = "" THEN None ELSE parsed
           extra_emojis ==
               IF extra_emojis_input = "" THEN None
               ELSE Some(from_strs(split_strip(extra_emojis_input)))
       IN IF override_for = None
          THEN reply' = "invalid channel" /\ UNCHANGED guild_configs
          ELSE IF required_reactions_input # "" /\ parsed = None
          THEN reply' = "invalid count" /\ UNCHANGED guild_configs
          ELSE IF required_reactions_input # "" /\ non_positive(parsed[1])
          THEN reply' = "must be greater than 0" /\ UNCHANGED guild_configs
          ELSE /\ guild_configs' =
                    Mutated(channel,
                            WithOverride(ConfigOf(CommandGuild, channel),
                                         ChannelConfigOverride(override_for[1],
                                                               required_reactions,
                                                               extra_emojis)))
               /\ reply' = "overridden"
    /\ UNCHANGED <<pending, handlers>>

\* ---------------------------------------------------------------- lifecycle
\* everything the lifecycle of the cog leaves alone
running == <<allow_self_star, store, reactions, reaction_order, mirrors, pc, event, relevant_configs,
             reaction_map, idx, sql_response, log, ext, exc, observed, reply>>

\* line 532: what cog_load refuses in a channel config
invalid(config) == config.required_reactions <= 0

\* cog_load: RuntimeError when a channel config is refused
cog_load ==
    /\ cog = "constructed"
    /\ cog' = IF \E g \in DOMAIN guild_configs :
                   \E i \in 1..Len(guild_configs[g]) : invalid(guild_configs[g][i])
              THEN "failed" ELSE "loaded"
    /\ UNCHANGED <<guild_configs, config_json, pending, running>>

\* cog_unload: the configuration is written to guild_configs.json
cog_unload ==
    /\ cog = "loaded"
    /\ config_json' = dump(guild_configs)
    /\ cog' = "unloaded"
    /\ UNCHANGED <<guild_configs, pending, running>>

\* one channel entry of guild_configs.json for starboard 20, watching the star
FileChannel(required_reactions, channel_overrides) ==
    [channel_id |-> 20,
     required_reactions |-> required_reactions,
     watched_emojis |-> <<"star">>,
     channel_overrides |-> channel_overrides,
     exclude |-> <<>>,
     exclude_is_include |-> FALSE]

\* the override lists a file can give starboard 20: one override for channel
\* 10 whose required_reactions is 0 or 1
FileOverrides ==
    {<<[override_for |-> 10, required_reactions |-> q, extra_emojis |-> None]>> :
        q \in {Some(0), Some(1)}}

\* guild_configs.json as the constructor finds it (lines 520-526; the file is
\* never validated when read): missing (then written as {}), written by a
\* version that knew no overrides and no exclusion, or naming starboard 20
\* with a required_reactions of 0 or 1 and an override for channel 10
ConfigFiles ==
    {[k \in {} |-> <<>>]} \cup
    {[k \in {str(CommandGuild)} |->
        <<[channel_id |-> 20, required_reactions |-> 1, watched_emojis |-> <<"star">>]>>]} \cup
    {[k \in {str(CommandGuild)} |-> <<FileChannel(r, o)>>] :
        r \in 0..1, o \in FileOverrides}

\* SpecConfig: the cog is constructed from a file and loaded, its
\* configuration is changed by commands, then it is unloaded; no reaction
\* event arrives.
InitConfig ==
    /\ config_json \in ConfigFiles
    /\ guild_configs = load(config_json)
    /\ cog = "constructed"
    /\ pending = None
    /\ reply = "none"
    /\ allow_self_star = FALSE
    /\ store = {}
    /\ reactions = ReactionsOf([k \in EmojiStrings |-> {}])
    /\ reaction_order = ListedOrder
    /\ mirrors = {}
    /\ pc = [e \in Events |-> "idle"]
    /\ event = [e \in Events |-> NoEvent]
    /\ relevant_configs = [e \in Events |-> <<>>]
    /\ reaction_map = [e \in Events |-> EmptyMap]
    /\ idx = [e \in Events |-> 0]
    /\ sql_response = [e \in Events |-> None]
    /\ log = [e \in Events |-> <<>>]
    /\ ext = [e \in Events |-> [call |-> "none", answer |-> "none"]]
    /\ exc = [e \in Events |-> "none"]
    /\ observed = [e \in Events |-> <<>>]

\* a command or a button used on starboard channel `channel`
Command(channel) ==
    \/ \E arg \in ThresholdArgs : starboard_add_cmd(channel, arg)
    \/ \E arg \in ThresholdArgs : starboard_modify_cmd(channel, arg)
    \/ starboard_remove_cmd(channel)
    \/ \E x \in {10} : starboard_exclude_add_cmd(channel, x)
    \/ \E x \in {10} : starboard_exclude_remove_cmd(channel, x)
    \/ \E w \in {None, Some(TRUE), Some(FALSE)} : starboard_exclude_invert_cmd(channel, w)
    \/ \E text \in EmojiStrings : add_emoji(channel, text)
    \/ \E text \in EmojiStrings : remove_emoji(channel, text)
    \/ \E c \in ChannelInputs, r \in RequiredInputs, x \in ExtraEmojiInputs :
          override_config(channel, c, r, x)

NextConfig ==
    \/ cog_load
    \/ \E channel \in CommandChannels : Command(channel)
    \/ AddFetchWebhook
    \/ cog_unload

SpecConfig == InitConfig /\ [][NextConfig]_vars

\* SpecSnapshot: one event is handled while /starboard modify may run, at
\* any await of the handler, on starboard 20
NextSnapshot ==
    \/ NextWide
    \/ \E channel \in CommandChannels, arg \in ThresholdArgs :
          starboard_modify_cmd(channel, arg)

SpecSnapshot == Init /\ [][NextSnapshot]_vars

\* ---------------------------------------------------------------- properties
Last(s) == s[Len(s)]
Arrived == {e \in Events : pc[e] # "idle"}
Done == {e \in Events : pc[e] = "done"}
HasRow(original_id) == \E r \in store : r.original_id = original_id
\* the mirrors posted in starboard channel c for the original m
MirrorsOf(m, c) == {w \in mirrors : w.original_id = m /\ w.channel_id = c}
Intents(e) == {log[e][k].intent : k \in 1..Len(log[e])}

\* C1: an event handled twice in sequence, nothing else changing, from no
\* record, with the count at or above the threshold and every platform call
\* succeeding, sends exactly one mirror: the second handling sends none.
C1_SecondHandlingIsNoOp ==
    (/\ {1, 2} \subseteq Done
     /\ event[1] = event[2]
     /\ ext[1].answer = "ok" /\ ext[2].answer = "ok"
     /\ log[1] # <<>>
     /\ \A k \in 1..Len(log[1]) : log[1][k].sql = None
     /\ Last(log[1]).intent = "create")
    => Cardinality(MirrorsOf(event[1].message_id, Last(log[1]).channel_id)) = 1

\* C2: however the handlers of concurrent events for one original interleave,
\* at most one mirror of that original is ever posted in a starboard.
C2_AtMostOneMirror ==
    \A m \in Messages : \A c \in StarboardChannels : Cardinality(MirrorsOf(m, c)) <= 1

\* an event is inside its read-decide-write sequence from its SELECT until
\* the publish and the store write of the intent are over
InSequence(e) ==
    pc[e] \in {"create_webhook", "create_send", "update_webhook", "update_edit",
               "delete_webhook", "delete_message"}

\* C3: the read-decide-write sequences of two events for the same original
\* message never overlap.
C3_MutualExclusion ==
    \A e1 \in Events : \A e2 \in Events \ {e1} :
        (InSequence(e1) /\ InSequence(e2))
            => event[e1].message_id # event[e2].message_id

\* the decision table of the specification (section 4.4 step 5c)
DecisionTable(count, required, record) ==
    CASE count >= required /\ record = None -> "create"
      [] count >= required /\ record # None /\ record[1].star_count # count -> "update"
      [] count >= required /\ record # None /\ record[1].star_count = count -> "none"
      [] count < required /\ record # None -> "delete"
      [] OTHER -> "none"

\* C4: every decision of update_starboard_message is the one the decision
\* table gives for the unique count, the effective threshold and the record
\* read, and the handler is suspended in the operation decided.
C4_DecisionTable ==
    \A e \in Events :
        /\ \A k \in 1..Len(log[e]) :
              log[e][k].intent = DecisionTable(log[e][k].count, log[e][k].required,
                                               log[e][k].sql)
        /\ pc[e] \in {"create_webhook", "create_send"} => Last(log[e]).intent = "create"
        /\ pc[e] \in {"update_webhook", "update_edit"} => Last(log[e]).intent = "update"
        /\ pc[e] \in {"delete_webhook", "delete_message"} => Last(log[e]).intent = "delete"

\* one event at both boundaries: below the threshold of starboard 20 by one
\* with a record (delete), at the threshold of starboard 21 (create)
C4_Witness ==
    \E e \in Events :
        /\ Len(log[e]) = 2
        /\ log[e][1].count = log[e][1].required - 1 /\ log[e][1].intent = "delete"
        /\ log[e][2].count = log[e][2].required /\ log[e][2].intent = "create"
        /\ pc[e] = "create_send"

\* C5: when the handler is over and its last platform call was a send that
\* succeeded, the table holds the row of the original with the id of the
\* message sent and the count it was sent with.
C5_CreateStoresRecord ==
    \A e \in Done :
        ext[e] = [call |-> "send", answer |-> "ok"]
            => \E w \in mirrors : \E r \in store :
                    /\ w.original_id = event[e].message_id
                    /\ r.original_id = w.original_id
                    /\ r.starboard_message_id = w.id
                    /\ r.star_count = w.star_count

\* C6: once an event has decided to delete, no row of its original remains:
\* while the mirror is being deleted, after the deletion failed or succeeded,
\* and after the event.
C6_DeleteRemovesRecord ==
    \A e \in Events : "delete" \in Intents(e) => ~HasRow(event[e].message_id)

\* the external deletion failed and the row is gone
C6_Witness ==
    \E e \in Done :
        /\ log[e] # <<>>
        /\ Last(log[e]).intent = "delete"
        /\ ext[e] = [call |-> "delete_message", answer |-> "error"]
        /\ ~HasRow(event[e].message_id)

\* C7: a delete whose external deletion answers NotFound ends without an
\* exception.
C7_DeleteToleratesNotFound ==
    \A e \in Done :
        ext[e] = [call |-> "delete_message", answer |-> "NotFound"] => exc[e] = "none"

\* C8: an update whose edit answers NotFound ends with the row deleted and
\* NotFound raised.
C8_UpdateMissingTarget ==
    \A e \in Done :
        ext[e] = [call |-> "edit_message", answer |-> "NotFound"]
            => exc[e] = "NotFound" /\ ~HasRow(event[e].message_id)

C8_Witness ==
    \E e \in Done :
        /\ log[e] # <<>>
        /\ Last(log[e]).intent = "update"
        /\ ext[e] = [call |-> "edit_message", answer |-> "NotFound"]
        /\ exc[e] = "NotFound"
        /\ ~HasRow(event[e].message_id)

\* C9: an event that reached its loop has, when it is over, decided for
\* every config it selected, whatever failed for one of them.
C9_EveryConfigDecided ==
    \A e \in Done : log[e] # <<>> => Len(log[e]) = Len(relevant_configs[e])

\* the starboard channels of the guild of an event (none without an entry)
StarboardsOf(guild_id) ==
    IF guild_id # None /\ guild_id[1] \in DOMAIN guild_configs
    THEN {guild_configs[guild_id[1]][i].channel_id : i \in 1..Len(guild_configs[guild_id[1]])}
    ELSE {}
NoEntry(guild_id) == guild_id = None \/ guild_id[1] \notin DOMAIN guild_configs

\* C10: an event of a guild without configuration entry, or from a starboard
\* channel of its guild, ends at once: no platform call, no decision, no
\* exception; and no mirror is ever posted of a message of a starboard channel.
C10_RejectedEventDoesNothing ==
    /\ \A e \in Arrived :
          (NoEntry(event[e].guild_id)
                \/ event[e].channel_id \in StarboardsOf(event[e].guild_id))
            => /\ pc[e] = "done"
               /\ ext[e].call = "none"
               /\ log[e] = <<>>
               /\ exc[e] = "none"
    /\ \A w \in mirrors :
          Origin[w.original_id].channel_id \notin StarboardsOf(Origin[w.original_id].guild_id)

\* an event about message 2, posted in starboard channel 20, was dropped
C10_Witness ==
    \E e \in Done :
        /\ event[e].channel_id \in StarboardsOf(event[e].guild_id)
        /\ ext[e].call = "none"
        /\ mirrors = {}

\* the policy of a config on a source channel: a deny list keeps the channels
\* it does not name, an allow list the channels it names
Policy(config, channel_id) ==
    IF config.exclude_is_include
    THEN channel_id \in SeqToSet(config.exclude)
    ELSE channel_id \notin SeqToSet(config.exclude)

\* the event has passed the exclusion filter of lines 611-618
Filtered(e) ==
    /\ ext[e].call # "none"
    /\ ~(ext[e].call = "fetch_channel" /\ ext[e].answer = "error")

\* C11: a config is admitted for a source channel iff (the channel is not in
\* its exclude list) XOR exclude_is_include; once the filter has run, the
\* configs an event keeps are exactly the admitted ones among those watching
\* its emoji, and only admitted configs are ever aggregated and decided.
C11_ExclusionPolicy ==
    \A e \in Events :
        /\ \A i \in 1..Len(log[e]) :
             Policy(ConfigOf(event[e].guild_id[1], log[e][i].channel_id),
                    event[e].channel_id)
        /\ Filtered(e) =>
             LET configs == guild_configs[event[e].guild_id[1]]
             IN SeqToSet(relevant_configs[e]) =
                  {configs[i].channel_id : i \in
                     {i \in 1..Len(configs) :
                        /\ is_watched(configs[i], event[e].emoji, event[e].channel_id)
                        /\ Policy(configs[i], event[e].channel_id)}}

\* an allow list naming channel 10 admitted config 21 for an event in channel
\* 10, and the config was decided
C11_Witness ==
    \E e \in Events :
        /\ pc[e] = "done"
        /\ event[e].channel_id = 10
        /\ ConfigOf(1, 21).exclude = <<10>>
        /\ ConfigOf(1, 21).exclude_is_include
        /\ \E i \in 1..Len(log[e]) : log[e][i].channel_id = 21

\* the override of config for the source channel channel_id, if it has one
OverrideFor(config, channel_id) ==
    IF channel_id \in DOMAIN config.channel_overrides
    THEN Some(config.channel_overrides[channel_id])
    ELSE None

\* C12: the threshold a decision uses is the override's required_reactions
\* when the config has an override for the event's channel and that override
\* has required_reactions set, otherwise the config's required_reactions; an
\* override for another channel changes nothing.
C12_EffectiveThreshold ==
    \A e \in Events : \A i \in 1..Len(log[e]) :
        LET config == ConfigOf(event[e].guild_id[1], log[e][i].channel_id)
            override == OverrideFor(config, event[e].channel_id)
        IN log[e][i].required =
             IF override # None /\ override[1].required_reactions # None
             THEN override[1].required_reactions[1]
             ELSE config.required_reactions

\* the users who put an emoji watched by config on message m
WatchedUsers(config, m) ==
    UNION {reactions[m][k] : k \in {k \in EmojiStrings :
                is_watched(config, from_str(k), Origin[m].channel_id)}}

\* C14: with allow_self_star false the author's reactions are left out of
\* the count of every decision, so a message whose watched reactions are all
\* the author's counts 0 and no mirror of it is created.
C14_SelfStar ==
    ~allow_self_star =>
        \A e \in Events : \A i \in 1..Len(log[e]) :
            LET m == event[e].message_id
                config == ConfigOf(event[e].guild_id[1], log[e][i].channel_id)
                users == WatchedUsers(config, m)
            IN /\ log[e][i].count = Cardinality(users \ {Origin[m].author})
               /\ (users \subseteq {Origin[m].author}) =>
                    /\ log[e][i].count = 0
                    /\ log[e][i].intent # "create"
                    /\ MirrorsOf(m, config.channel_id) = {}

\* the author alone starred message 1 and a config was decided for it
C14_Witness ==
    /\ ~allow_self_star
    /\ reactions[1]["star"] = {Origin[1].author}
    /\ \E e \in Events :
        /\ pc[e] = "done"
        /\ event[e].message_id = 1
        /\ \E i \in 1..Len(log[e]) : log[e][i].channel_id = 20 /\ log[e][i].count = 0

\* the star_count the table holds for the original m
StoredCount(m) == {r.star_count : r \in {r \in store : r.original_id = m}}

\* C16: on an update intent the stored star_count is changed only once the
\* edit of the mirror has succeeded: while the handler waits for the webhook
\* or for the edit, and after either failed with anything but NotFound, the
\* row still holds the star_count the decision read.
C16_UpdateAfterEdit ==
    \A e \in Events :
        (/\ log[e] # <<>>
         /\ Last(log[e]).intent = "update"
         /\ \/ pc[e] \in {"update_webhook", "update_edit"}
            \/ /\ pc[e] = "done"
               /\ ext[e].call \in {"fetch_webhook", "edit_message"}
               /\ ext[e].answer = "error")
        => StoredCount(event[e].message_id) = {Last(log[e]).sql[1].star_count}

\* C17: when a create fails at resolving the webhook or at sending the
\* mirror, the step that ends the handler leaves the table as it was (no row
\* is inserted) and posts no mirror.
C17_FailedCreateLeavesStore ==
    [][\A e \in Events :
          (/\ pc[e] \in {"create_webhook", "create_send"}
           /\ pc'[e] = "done"
           /\ ext'[e].answer # "ok")
          => store' = store /\ mirrors' = mirrors]_vars

\* a create failed at the webhook or at the send, and the original has no row
C17_Witness ==
    \E e \in Events :
        /\ pc[e] = "done"
        /\ log[e] # <<>>
        /\ Last(log[e]).intent = "create"
        /\ ext[e].call \in {"fetch_webhook", "send"}
        /\ ext[e].answer # "ok"
        /\ ~HasRow(event[e].message_id)

\* C18: when fetching the reacted message answers NotFound the handler
\* returns at once, raising nothing and having decided nothing: the table
\* and the mirrors are as they were, also when the original has a row.
C18_MessageGone ==
    [][\A e \in Events :
          (/\ pc[e] = "fetch_message"
           /\ ext'[e] = [call |-> "fetch_message", answer |-> "NotFound"])
          => /\ pc'[e] = "done"
             /\ exc'[e] = "none"
             /\ log'[e] = <<>>
             /\ store' = store
             /\ mirrors' = mirrors]_vars

\* the fetch of a message that has a row answered NotFound
C18_Witness ==
    \E e \in Events :
        /\ pc[e] = "done"
        /\ ext[e] = [call |-> "fetch_message", answer |-> "NotFound"]
        /\ HasRow(event[e].message_id)

\* every threshold the configuration gc holds: <<guild, starboard, 0, n>> for
\* a config's required_reactions n, <<guild, starboard, source, n>> for the
\* required_reactions n an override for the channel `source` has set
Thresholds(gc) ==
    UNION {UNION {
        {<<g, gc[g][i].channel_id, 0, gc[g][i].required_reactions>>} \cup
        {<<g, gc[g][i].channel_id, c, gc[g][i].channel_overrides[c].required_reactions[1]>> :
            c \in {c \in DOMAIN gc[g][i].channel_overrides :
                     gc[g][i].channel_overrides[c].required_reactions # None}}
        : i \in 1..Len(gc[g])} : g \in DOMAIN gc}

\* the step refused what it was given: nothing of the configuration changed
\* and no /starboard add was left waiting
Refused ==
    /\ guild_configs' = guild_configs
    /\ pending' = pending
    /\ reply' \notin {"none", "added", "modified", "overridden"}

\* C13: no step of /starboard add, /starboard modify or the override modal
\* ever stores a threshold that is not positive, so thresholds that are
\* positive stay positive through any sequence of them; and a command given a
\* non-positive threshold (as its argument, as the default it falls back to,
\* or as the text of the modal) is refused and changes nothing: a step that
\* is not a refusal is no step of such a command.
C13_ThresholdPositivity ==
    [][/\ \/ guild_configs' = guild_configs
          \/ \A t \in Thresholds(guild_configs') \ Thresholds(guild_configs) : t[4] > 0
       /\ pending' # None => pending'[1].required_reactions > 0
       /\ \/ Refused
          \/ \A channel \in CommandChannels :
               /\ \A arg \in ThresholdArgs :
                    (IF arg = None THEN default_required_stars ELSE arg[1]) <= 0
                    => /\ ~starboard_add_cmd(channel, arg)
                       /\ ~starboard_modify_cmd(channel, arg)
               /\ \A r \in RequiredInputs :
                    (int_or_ValueError(r) # None /\ int_or_ValueError(r)[1] <= 0)
                    => \A c \in ChannelInputs, x \in ExtraEmojiInputs :
                           ~override_config(channel, c, r, x)]_vars

\* a non-positive threshold was refused while starboard 20 had a threshold of
\* its own and an override with one
C13_Witness ==
    /\ reply = "must be greater than 0"
    /\ CommandGuild \in DOMAIN guild_configs
    /\ \E t \in Thresholds(guild_configs) : t[3] # 0 /\ t[4] > 0

\* C15: every configuration the commands can build is read back from its
\* dump as it was, overrides, exclusion list and exclusion mode included.
C15_RoundTrip == load(dump(guild_configs)) = guild_configs

\* a configuration with an override carrying an extra emoji, an allow list
\* and an emptied watched list has been written to the file
C15_Witness ==
    /\ cog = "unloaded"
    /\ config_json = dump(guild_configs)
    /\ CommandGuild \in DOMAIN guild_configs
    /\ LET config == ConfigOf(CommandGuild, 20)
       IN /\ 10 \in DOMAIN config.channel_overrides
          /\ config.channel_overrides[10].extra_emojis = Some(<<heart>>)
          /\ config.channel_overrides[10].required_reactions # None
          /\ config.exclude = <<10>>
          /\ config.exclude_is_include
          /\ config.watched_emojis = <<heart>>

\* C20: the cog only starts with a configuration in which every channel
\* config's required_reactions and every override's required_reactions that
\* is set are positive: cog_load raises on any other.
C20_LoadValidation ==
    cog = "loaded" => \A t \in Thresholds(guild_configs) : t[4] > 0

\* the config of starboard channel_id as event e found it at its selection
ObservedConfig(e, channel_id) ==
    observed[e][CHOOSE i \in 1..Len(observed[e]) : observed[e][i].channel_id = channel_id]

\* C19: the threshold every decision of an event uses is the one the config
\* had when the event selected its relevant configs: a command that runs while
\* the handler is suspended does not reach the event.
C19_ConfigSnapshot ==
    \A e \in Events : \A i \in 1..Len(log[e]) :
        log[e][i].required =
            relevant_required_reactions(ObservedConfig(e, log[e][i].channel_id),
                                        event[e].channel_id)

\* the reaction map lines 631-638 build from the reactions r of message m
MapOf(r, m) ==
    [k \in {k \in EmojiStrings : r[k] # {}} |->
        {u \in r[k] : allow_self_star \/ u # Origin[m].author}]

\* the emojis config watches in the channel of message m
WatchedStrings(config, m) ==
    {k \in EmojiStrings : is_watched(config, from_str(k), Origin[m].channel_id)}

\* C21: the count of every decision is the number of distinct users (the
\* author left out unless self stars are allowed) over the watched emojis
\* only; and whatever users are added to the reactions of the message, the
\* count of the larger snapshot is not smaller, and is the same when users
\* were added to non-watched emojis only.
C21_UniqueCount ==
    \A e \in Events : \A i \in 1..Len(log[e]) :
        LET m == event[e].message_id
            config == ConfigOf(event[e].guild_id[1], log[e][i].channel_id)
            watched == WatchedStrings(config, m)
            kept(r) == UNION {MapOf(r, m)[k] : k \in watched \cap DOMAIN MapOf(r, m)}
            count(r) == unique_reaction_count(
                            relevant_reaction_map(config, MapOf(r, m), Origin[m].channel_id))
        IN /\ log[e][i].count = Cardinality(kept(reactions[m]))
           /\ \A r \in [EmojiStrings -> SUBSET Users] :
                (\A k \in EmojiStrings : reactions[m][k] \subseteq r[k]) =>
                    /\ count(r) >= log[e][i].count
                    /\ (\A k \in watched : r[k] = reactions[m][k]) =>
                          count(r) = log[e][i].count

\* a user who put both emojis on message 1 was counted once by config 21,
\* which watches both
C21_Witness ==
    /\ reactions[1]["star"] = {2}
    /\ reactions[1]["<:heart:7>"] = {2}
    /\ is_watched(ConfigOf(1, 21), from_str("<:heart:7>"), 10)
    /\ is_watched(ConfigOf(1, 21), from_str("star"), 10)
    /\ \E e \in Events :
        /\ pc[e] = "done"
        /\ event[e].message_id = 1
        /\ \E i \in 1..Len(log[e]) : log[e][i].channel_id = 21 /\ log[e][i].count = 1

\* emoji is one of the watched emojis of config, or one of the extra emojis
\* of the override config has for the source channel channel_id
Watches(config, emoji, channel_id) ==
    \/ emoji \in SeqToSet(config.watched_emojis)
    \/ /\ OverrideFor(config, channel_id) # None
       /\ OverrideFor(config, channel_id)[1].extra_emojis # None
       /\ emoji \in SeqToSet(OverrideFor(config, channel_id)[1].extra_emojis[1])

\* C22: the configs an event selects are exactly those with the event's emoji
\* among their watched emojis or among the extra emojis of their override for
\* the event's channel, and only such configs are decided; the extra emojis of
\* an override for another channel select nothing.
C22_WatchedEmojis ==
    \A e \in Events :
        /\ pc[e] = "fetch_channel" =>
             LET configs == guild_configs[event[e].guild_id[1]]
             IN SeqToSet(relevant_configs[e]) =
                  {configs[i].channel_id : i \in
                     {i \in 1..Len(configs) :
                        Watches(configs[i], event[e].emoji, event[e].channel_id)}}
        /\ \A i \in 1..Len(log[e]) :
             Watches(ConfigOf(event[e].guild_id[1], log[e][i].channel_id),
                     event[e].emoji, event[e].channel_id)

\* a heart in channel 10 was decided by config 20, which watches the star
\* only and lists the heart in its override for channel 10
C22_Witness ==
    \E e \in Events :
        /\ pc[e] = "done"
        /\ event[e].channel_id = 10
        /\ event[e].emoji = heart
        /\ heart \notin SeqToSet(ConfigOf(1, 20).watched_emojis)
        /\ \E i \in 1..Len(log[e]) : log[e][i].channel_id = 20

\* the position of emoji string k in the order message.reactions lists them
Position(k) == CHOOSE i \in 1..Len(reaction_order) : reaction_order[i] = k

\* the map create_starboard_message was given for mirror w
CreatedFrom(w) ==
    relevant_reaction_map(ConfigOf(1, w.channel_id), BuildReactionMap(w.original_id),
                          Origin[w.original_id].channel_id)

\* C23: the emoji on the button of every mirror is an emoji of the reaction
\* map the mirror was created from whose user list is of maximal size, and
\* the first such emoji in the iteration order of the map.
C23_TopEmoji ==
    \A w \in mirrors :
        LET rmap == CreatedFrom(w)
        IN /\ w.star_emoji \in DOMAIN rmap
           /\ \A k \in DOMAIN rmap :
                /\ Cardinality(rmap[k]) <= Cardinality(rmap[w.star_emoji])
                /\ Cardinality(rmap[k]) = Cardinality(rmap[w.star_emoji]) =>
                      Position(w.star_emoji) <= Position(k)

\* a mirror was created from a map whose two emojis have one user each, the
\* heart listed first, and its button shows the heart
C23_Witness ==
    \E w \in mirrors :
        /\ reaction_order[1] = "<:heart:7>"
        /\ DOMAIN CreatedFrom(w) = EmojiStrings
        /\ \A k \in EmojiStrings : Cardinality(CreatedFrom(w)[k]) = 1
        /\ w.star_emoji = "<:heart:7>"

C24_HandlerWritesExistingRow ==
    \A e \in Events : \A i \in 1..Len(log[e]) :
        log[e][i].intent = "update" => log[e][i].sql # None

\* the step is a /starboard add that fails: refused by its checks, or ended
\* by a fetch_starboard_webhook that found no access or raised
FailedAdd ==
    \/ AddFetchWebhook /\ reply' # "added"
    \/ \E channel \in CommandChannels, arg \in ThresholdArgs :
          starboard_add_cmd(channel, arg) /\ reply' # "none"

\* C25: a /starboard add that fails (the channel is already a starboard, the
\* threshold is refused, the bot has no access to the channel, or resolving
\* the webhook raises) leaves guild_configs as it was.
C25_FailedAddLeavesConfigs ==
    [][guild_configs' = guild_configs \/ ~FailedAdd]_vars

\* a /starboard add of channel 20 ended on a missing access and channel 20 is
\* no starboard
C25_Witness ==
    /\ reply = "no access"
    /\ pending = None
    /\ 20 \notin ChannelIds(GuildGet(CommandGuild))

\* the source channels for which config has no override listing emoji
NotListedFor(config, emoji) ==
    {source \in OverrideChannels :
        \/ source \notin DOMAIN config.channel_overrides
        \/ config.channel_overrides[source].extra_emojis = None
        \/ emoji \notin SeqToSet(config.channel_overrides[source].extra_emojis[1])}

\* C26: after a Remove Emoji that answered "removed" for an emoji, the config
\* no longer watches that emoji for any source channel without an override
\* listing it.
C26_RemovedIsUnwatched ==
    [][\A channel \in CommandChannels, text \in EmojiStrings :
          (remove_emoji(channel, text) /\ reply' = "emoji removed") =>
              \A source \in NotListedFor(ConfigOf(CommandGuild, channel)', from_str(text)) :
                  ~is_watched(ConfigOf(CommandGuild, channel)', from_str(text), source)]_vars

\* C27: a decision to update or to delete a mirror is taken for the starboard
\* the mirror was posted in: the row the decision read for the message names
\* the starboard channel of the deciding config, so no config edits, deletes
\* or removes the row of a mirror of another config.
C27_MirrorOfOwnConfig ==
    [][\A e \in Events :
          (Len(log'[e]) > Len(log[e]) /\ Last(log'[e]).intent \in {"update", "delete"}) =>
              \A r \in store :
                  r.original_id = event'[e].message_id =>
                      r.starboard_channel_id = Last(log'[e]).channel_id]_vars

====
